---- MODULE Spec2Model ----
(***************************************************************************)
(* Model of scripts/fetch_news.py: the daily news collection pipeline.     *)
(*                                                                         *)
(* Text is a sequence of symbols; " " is the whitespace symbol removed by  *)
(* str.strip().  A CSV file is a sequence of lines, a line is a sequence   *)
(* of cells, a cell is a text.  None (Python's None, a missing XML child,  *)
(* a missing dict key, a missing file) is a text no feed or file contains. *)
(***************************************************************************)
EXTENDS Integers, Sequences, FiniteSets, TLC

(* ---------------------------- bounds ----------------------------------- *)
\* number of runs of collect_daily in one behaviour
MaxRuns == 2
\* longest feed (number of <item> elements) the endpoint returns
MaxEntries == 3

(* --------------------------- configuration ----------------------------- *)
\* MAX_ITEMS_PER_QUERY, an environment setting (60 when unset)
MAX_ITEMS_PER_QUERY == 2

None == <<"None">>
Whitespace == {" "}

\* DEFAULT_QUERIES: three fixed queries
DEFAULT_QUERIES == << <<"q1">>, <<"q2">>, <<"q3">> >>

\* header of append_rows
header == << <<"source">>, <<"query">>, <<"title">>, <<"link">>,
             <<"published">>, <<"collected_jst">> >>

\* the processes that can execute collect_daily
Procs == {"p1", "p2"}

(* ------------------------------ text ----------------------------------- *)
RECURSIVE LStrip(_)
LStrip(s) ==
    IF s = <<>> THEN s
    ELSE IF Head(s) \in Whitespace THEN LStrip(Tail(s)) ELSE s

RECURSIVE RStrip(_)
RStrip(s) ==
    IF s = <<>> THEN s
    ELSE IF s[Len(s)] \in Whitespace THEN RStrip(SubSeq(s, 1, Len(s) - 1)) ELSE s

\* str.strip()
Strip(s) == RStrip(LStrip(s))

\* (x or "")
OrEmpty(x) == IF x = None THEN <<>> ELSE x

\* s.startswith("#")
StartsWithHash(s) == s # <<>> /\ Head(s) = "#"

Min(a, b) == IF a < b THEN a ELSE b

(* ------------------------- the environment ----------------------------- *)
\* <item> elements an upstream feed can hold: raw <title>, <link>, <pubDate>
RawEntries ==
    { [title |-> <<" ", "a", " ">>, link |-> <<"x", " ">>, pubDate |-> None],
      [title |-> <<"a">>,           link |-> None,         pubDate |-> <<"p", " ">>],
      [title |-> <<" ">>,           link |-> <<"y">>,      pubDate |-> <<"p">>],
      [title |-> None,              link |-> <<"x">>,      pubDate |-> None] }

RECURSIVE SeqsUpTo(_, _)
SeqsUpTo(S, n) ==
    IF n = 0 THEN {<<>>}
    ELSE LET P == SeqsUpTo(S, n - 1)
         IN  P \cup {Append(p, e) : p \in {q \in P : Len(q) = n - 1}, e \in S}

\* exceptions raised by s.get / raise_for_status
Exceptions == {"ConnectionError", "Timeout", "HTTPError"}

Resp(k, e, its) == [kind |-> k, exc |-> e, items |-> its]
Unpinned == Resp("any", "", <<>>)
EmptyFeed == Resp("feed", "", <<>>)

\* what one GET can produce: an exception, or a body that is not XML, XML
\* without <channel>, or a channel with its items
Responses ==
    {Resp("exception", e, <<>>) : e \in Exceptions}
    \cup {Resp("malformed", "", <<>>), Resp("nochannel", "", <<>>)}
    \cup {Resp("feed", "", its) : its \in SeqsUpTo(RawEntries, MaxEntries)}

\* config/queries.txt: absent, or its lines
QueryFiles ==
    { None,
      << <<"#", "c">>, <<" ">>, <<>>, <<" ", "#", "c">> >>,
      << <<" ", "A">>, <<"#", "c">>, <<"B", " ">> >>,
      << <<"A">>, <<>>, <<"A", " ">> >> }

QueryUniverse == {DEFAULT_QUERIES[i] : i \in 1..Len(DEFAULT_QUERIES)} \cup {<<"A">>, <<"B">>}

NoFile == [exists |-> FALSE, lines |-> <<>>]

\* a query file whose read raises (bytes that are not UTF-8, no permission)
Unreadable == <<"Unreadable">>

VARIABLES
    qfile,      \* QUERY_FILE on disk: None or its lines
    upstream,   \* per query: the response the endpoint is pinned to, or Unpinned
    out_csv,    \* data/news_<day>.csv of the one day all modelled runs resolve
    runs,       \* number of calls of collect_daily so far
    pc,         \* per process: position in collect_daily
    runNo,      \* per process: which call of collect_daily it executes
    queries,    \* per process: queries
    qi,         \* per process: i of enumerate(queries, start=1)
    seen,       \* per process: seen
    all_new_rows, \* per process: all_new_rows
    last,       \* per process: the response of the latest GET, without its items
    appendCalls,\* per process: calls of append_rows made by the current run
    printed,    \* per process: the lines printed by its latest step
    seeded,     \* per process: the set read_existing_set returned to this run
    readRaised  \* per process: the read of the dataset raised inside read_existing_set

vars == <<qfile, upstream, out_csv, runs, pc, runNo, queries, qi, seen,
          all_new_rows, last, appendCalls, printed, seeded, readRaised>>

(* --------------------------- NewsItem ---------------------------------- *)
NewsItem(q, t, l, p, c) ==
    [query |-> q, title |-> t, link |-> l, published |-> p, collected_jst |-> c]

\* NewsItem.as_row
as_row(it) ==
    [source |-> <<"GoogleNews:">> \o it.query, query |-> it.query,
     title |-> it.title, link |-> it.link, published |-> it.published,
     collected_jst |-> it.collected_jst]

\* now_jst_iso(): the clock reading during the n-th run
now_jst_iso(n) == <<ToString(n)>>

(* --------------------------- parse_rss --------------------------------- *)
\* the for loop of parse_rss over channel.findall("item")[:max_items]
\* ParseLoop without "if not title: continue"
RECURSIVE ParseLoopKeepsBlank(_, _, _)
ParseLoopKeepsBlank(its, query, now) ==
    IF its = <<>> THEN <<>>
    ELSE LET it == Head(its)
         IN  <<NewsItem(query, Strip(OrEmpty(it.title)), Strip(OrEmpty(it.link)),
                        Strip(OrEmpty(it.pubDate)), now)>>
             \o ParseLoopKeepsBlank(Tail(its), query, now)

RECURSIVE ParseLoop(_, _, _)
ParseLoop(its, query, now) ==
    IF its = <<>> THEN <<>>
    ELSE LET it    == Head(its)
             title == Strip(OrEmpty(it.title))
             link  == Strip(OrEmpty(it.link))
             pub   == Strip(OrEmpty(it.pubDate))
             rest  == ParseLoop(Tail(its), query, now)
         IN  IF title = <<>> THEN rest
             ELSE <<NewsItem(query, title, link, pub, now)>> \o rest

\* parse_rss counting max_items over the entries that have a title
parse_rss_CapAfterFilter(body, query, max_items, now) ==
    IF body.kind = "malformed" THEN <<>>
    ELSE IF body.kind = "nochannel" THEN <<>>
    ELSE LET kept == ParseLoop(body.items, query, now)
         IN  SubSeq(kept, 1, Min(max_items, Len(kept)))

parse_rss(body, query, max_items, now) ==
    IF body.kind = "malformed" THEN <<>>
    ELSE IF body.kind = "nochannel" THEN <<>>
    ELSE ParseLoop(SubSeq(body.items, 1, Min(max_items, Len(body.items))), query, now)

(* ---------------------- load_queries_from_file ------------------------- *)
\* UsableLines without the skip of # comment lines
RECURSIVE UsableLinesKeepsComments(_)
UsableLinesKeepsComments(lines) ==
    IF lines = <<>> THEN <<>>
    ELSE LET s == Strip(OrEmpty(Head(lines)))
         IN  IF s = <<>> THEN UsableLinesKeepsComments(Tail(lines))
             ELSE <<s>> \o UsableLinesKeepsComments(Tail(lines))

RECURSIVE UsableLines(_)
UsableLines(lines) ==
    IF lines = <<>> THEN <<>>
    ELSE LET s == Strip(OrEmpty(Head(lines)))
         IN  IF s = <<>> THEN UsableLines(Tail(lines))
             ELSE IF StartsWithHash(s) THEN UsableLines(Tail(lines))
             ELSE <<s>> \o UsableLines(Tail(lines))

load_queries_from_file(path) ==
    IF path = None THEN <<>> ELSE UsableLines(path)

(* ------------------------ the day's CSV file --------------------------- *)
\* csv.DictReader's r.get(name): the cell under the last column called name
DictGet(fieldnames, line, name) ==
    LET cols == {i \in 1..Min(Len(fieldnames), Len(line)) : fieldnames[i] = name}
    IN  IF cols = {} THEN None
        ELSE line[CHOOSE i \in cols : \A j \in cols : j <= i]

\* ReadLoop testing "if t" instead of "if t and l"
RECURSIVE ReadLoopTitleOnly(_, _)
ReadLoopTitleOnly(fieldnames, lines) ==
    IF lines = <<>> THEN {}
    ELSE LET t == Strip(OrEmpty(DictGet(fieldnames, Head(lines), <<"title">>)))
             l == Strip(OrEmpty(DictGet(fieldnames, Head(lines), <<"link">>)))
             rest == ReadLoopTitleOnly(fieldnames, Tail(lines))
         IN  IF t # <<>> THEN {<<t, l>>} \cup rest ELSE rest

RECURSIVE ReadLoop(_, _)
ReadLoop(fieldnames, lines) ==
    IF lines = <<>> THEN {}
    ELSE LET t == Strip(OrEmpty(DictGet(fieldnames, Head(lines), <<"title">>)))
             l == Strip(OrEmpty(DictGet(fieldnames, Head(lines), <<"link">>)))
             rest == ReadLoop(fieldnames, Tail(lines))
         IN  IF t # <<>> /\ l # <<>> THEN {<<t, l>>} \cup rest ELSE rest

read_existing_set(csv) ==
    IF ~csv.exists THEN {}
    ELSE IF csv.lines = <<>> THEN {}
    ELSE ReadLoop(Head(csv.lines), Tail(csv.lines))

\* w.writerow({k: r.get(k, "") for k in header})
WriteRow(r) ==
    <<r.source, r.query, r.title, r.link, r.published, r.collected_jst>>

\* append_rows opening the file with mode "w" instead of "a"
append_rows_truncating(csv, rows) ==
    [exists |-> TRUE,
     lines  |-> (IF ~csv.exists THEN <<header>> ELSE <<>>)
                \o [i \in 1..Len(rows) |-> WriteRow(rows[i])]]

append_rows(csv, rows) ==
    [exists |-> TRUE,
     lines  |-> csv.lines
                \o (IF ~csv.exists THEN <<header>> ELSE <<>>)
                \o [i \in 1..Len(rows) |-> WriteRow(rows[i])]]

(* ----------------------- collect_daily: helpers ------------------------ *)
\* the try/except around the GET and parse_rss
FetchItems(resp, q, now) ==
    IF resp.kind = "exception" THEN <<>>
    ELSE parse_rss(resp, q, MAX_ITEMS_PER_QUERY, now)

\* DedupLoop without seen.add(key)
RECURSIVE DedupLoopNoAdd(_, _, _)
DedupLoopNoAdd(items, seenS, acc) ==
    IF items = <<>> THEN [seen |-> seenS, new_items |-> acc]
    ELSE LET it  == Head(items)
             key == <<it.title, it.link>>
         IN  IF key \in seenS THEN DedupLoopNoAdd(Tail(items), seenS, acc)
             ELSE DedupLoopNoAdd(Tail(items), seenS, Append(acc, it))

\* DedupLoop without "if key in seen: continue"
RECURSIVE DedupLoopNoSkip(_, _, _)
DedupLoopNoSkip(items, seenS, acc) ==
    IF items = <<>> THEN [seen |-> seenS, new_items |-> acc]
    ELSE LET it  == Head(items)
             key == <<it.title, it.link>>
         IN  DedupLoopNoSkip(Tail(items), seenS \cup {key}, Append(acc, it))

\* the dedup loop over items: the new seen and new_items
RECURSIVE DedupLoop(_, _, _)
DedupLoop(items, seenS, acc) ==
    IF items = <<>> THEN [seen |-> seenS, new_items |-> acc]
    ELSE LET it  == Head(items)
             key == <<it.title, it.link>>
         IN  IF key \in seenS THEN DedupLoop(Tail(items), seenS, acc)
             ELSE DedupLoop(Tail(items), seenS \cup {key}, Append(acc, it))

\* Extend assigning the new rows instead of extending the list
ExtendReplaces(rows, new_items) ==
    [i \in 1..Len(new_items) |-> as_row(new_items[i])]

\* Extend putting the new rows in front of the list
ExtendPrepends(rows, new_items) ==
    [i \in 1..Len(new_items) |-> as_row(new_items[i])] \o rows

\* all_new_rows.extend([it.as_row() for it in new_items])
Extend(rows, new_items) ==
    rows \o [i \in 1..Len(new_items) |-> as_row(new_items[i])]

LogLine(tag, q, exc, i, n, got, new) ==
    [tag |-> tag, q |-> q, exc |-> exc, i |-> i, n |-> n, got |-> got, new |-> new]

(* ------------------------------ Init ----------------------------------- *)
InitRuns ==
    /\ out_csv = NoFile
    /\ runs = 0
    /\ pc = [p \in Procs |-> "idle"]
    /\ runNo = [p \in Procs |-> 0]
    /\ queries = [p \in Procs |-> <<>>]
    /\ qi = [p \in Procs |-> 0]
    /\ seen = [p \in Procs |-> {}]
    /\ all_new_rows = [p \in Procs |-> <<>>]
    /\ last = [p \in Procs |-> Resp("none", "", <<>>)]
    /\ appendCalls = [p \in Procs |-> 0]
    /\ printed = [p \in Procs |-> <<>>]
    /\ seeded = [p \in Procs |-> {}]
    /\ readRaised = [p \in Procs |-> FALSE]

\* no dataset yet, any query file, an endpoint free to answer anything
Init ==
    /\ qfile \in QueryFiles
    /\ upstream = [q \in QueryUniverse |-> Unpinned]
    /\ InitRuns

(* ----------------------------- actions --------------------------------- *)
Active(p) == pc[p] \in {"loop", "append"}

\* the responses the endpoint can give to query q now
Offered(q) == IF upstream[q] = Unpinned THEN Responses ELSE {upstream[q]}

\* collect_daily up to the loop: day, out_csv, queries, seen, all_new_rows;
\* index is what read_existing_set returns, raised whether its read raised
Begin(p, index, raised) ==
    /\ pc[p] \in {"idle", "done", "failed"}
    /\ runs < MaxRuns
    /\ qfile # Unreadable
    /\ runs' = runs + 1
    /\ LET loaded == load_queries_from_file(qfile)
            qs     == IF loaded = <<>> THEN DEFAULT_QUERIES ELSE loaded
       IN   /\ queries' = [queries EXCEPT ![p] = qs]
            /\ seen' = [seen EXCEPT ![p] = index]
            /\ seeded' = [seeded EXCEPT ![p] = index]
            /\ readRaised' = [readRaised EXCEPT ![p] = raised]
            /\ all_new_rows' = [all_new_rows EXCEPT ![p] = <<>>]
            /\ qi' = [qi EXCEPT ![p] = 1]
            /\ printed' = [printed EXCEPT ![p] =
                         << LogLine("daily", <<>>, "", 0, Len(qs), 0, 0),
                            LogLine(IF qfile # None THEN "source=file" ELSE "source=default",
                                    <<>>, "", 0, 0, 0, 0) >>]
            /\ pc' = [pc EXCEPT ![p] = IF qs = <<>> THEN "append" ELSE "loop"]
    /\ runNo' = [runNo EXCEPT ![p] = runs + 1]
    /\ last' = [last EXCEPT ![p] = Resp("none", "", <<>>)]
    /\ appendCalls' = [appendCalls EXCEPT ![p] = 0]
    /\ UNCHANGED <<qfile, upstream, out_csv>>

\* a run whose read of the day's dataset does not raise
Start(p) == Begin(p, read_existing_set(out_csv), FALSE)

\* sequential runs: the one process starts a run when its previous one returned
SeqStart(p) ==
    /\ p = "p1"
    /\ Start(p)

\* Iteration appending the rows of each query to the dataset as it goes
IterationWritesThrough(p, resp) ==
    LET i     == qi[p]
        n     == Len(queries[p])
        q     == queries[p][i]
        items == FetchItems(resp, q, now_jst_iso(runNo[p]))
        d     == DedupLoop(items, seen[p], <<>>)
    IN  /\ seen' = [seen EXCEPT ![p] = d.seen]
        /\ all_new_rows' = [all_new_rows EXCEPT ![p] = Extend(all_new_rows[p], d.new_items)]
        /\ out_csv' = IF d.new_items = <<>> THEN out_csv
                      ELSE append_rows(out_csv, Extend(<<>>, d.new_items))
        /\ last' = [last EXCEPT ![p] = Resp(resp.kind, resp.exc, <<>>)]
        /\ printed' = [printed EXCEPT ![p] =
                         (IF resp.kind = "exception"
                          THEN <<LogLine("warn", q, resp.exc, 0, 0, 0, 0)>>
                          ELSE <<>>)
                         \o <<LogLine("ok", q, "", i, n, Len(items), Len(d.new_items))>>]
        /\ qi' = [qi EXCEPT ![p] = i + 1]
        /\ pc' = [pc EXCEPT ![p] = IF i = n THEN "append" ELSE "loop"]
        /\ UNCHANGED <<qfile, upstream, runs, runNo, queries, appendCalls,
                       seeded, readRaised>>

\* the body of the for loop over queries, the GET answering resp
Iteration(p, resp) ==
    LET i     == qi[p]
        n     == Len(queries[p])
        q     == queries[p][i]
        items == FetchItems(resp, q, now_jst_iso(runNo[p]))
        d     == DedupLoop(items, seen[p], <<>>)
    IN  /\ seen' = [seen EXCEPT ![p] = d.seen]
        /\ all_new_rows' = [all_new_rows EXCEPT ![p] = Extend(all_new_rows[p], d.new_items)]
        /\ last' = [last EXCEPT ![p] = Resp(resp.kind, resp.exc, <<>>)]
        /\ printed' = [printed EXCEPT ![p] =
                         (IF resp.kind = "exception"
                          THEN <<LogLine("warn", q, resp.exc, 0, 0, 0, 0)>>
                          ELSE <<>>)
                         \o <<LogLine("ok", q, "", i, n, Len(items), Len(d.new_items))>>]
        /\ qi' = [qi EXCEPT ![p] = i + 1]
        /\ pc' = [pc EXCEPT ![p] = IF i = n THEN "append" ELSE "loop"]
        /\ UNCHANGED <<qfile, upstream, out_csv, runs, runNo, queries, appendCalls,
                       seeded, readRaised>>

\* ProcessQuery without the try/except: the exception of the GET ends the run
ProcessQueryRaises(p) ==
    /\ pc[p] = "loop"
    /\ \E resp \in Offered(queries[p][qi[p]]) :
         IF resp.kind = "exception"
         THEN /\ pc' = [pc EXCEPT ![p] = "failed"]
              /\ last' = [last EXCEPT ![p] = Resp(resp.kind, resp.exc, <<>>)]
              /\ UNCHANGED <<qfile, upstream, out_csv, runs, runNo, queries, qi, seen,
                             all_new_rows, appendCalls, printed, seeded, readRaised>>
         ELSE Iteration(p, resp)

\* one iteration of the for loop over queries
ProcessQuery(p) ==
    /\ pc[p] = "loop"
    /\ \E resp \in Offered(queries[p][qi[p]]) : Iteration(p, resp)

\* FinalAppend without the "if all_new_rows" test
FinalAppendAlways(p) ==
    /\ pc[p] = "append"
    /\ out_csv' = append_rows(out_csv, all_new_rows[p])
    /\ appendCalls' = [appendCalls EXCEPT ![p] = appendCalls[p] + 1]
    /\ printed' = [printed EXCEPT ![p] =
                 <<LogLine("done", <<>>, "", 0, 0, 0, Len(all_new_rows[p]))>>]
    /\ pc' = [pc EXCEPT ![p] = "done"]
    /\ UNCHANGED <<qfile, upstream, runs, runNo, queries, qi, seen, all_new_rows, last,
                   seeded, readRaised>>

\* if all_new_rows: append_rows(out_csv, all_new_rows); print; return
FinalAppend(p) ==
    /\ pc[p] = "append"
    /\ IF all_new_rows[p] # <<>>
       THEN /\ out_csv' = append_rows(out_csv, all_new_rows[p])
            /\ appendCalls' = [appendCalls EXCEPT ![p] = appendCalls[p] + 1]
       ELSE UNCHANGED <<out_csv, appendCalls>>
    /\ printed' = [printed EXCEPT ![p] =
                 <<LogLine("done", <<>>, "", 0, 0, 0, Len(all_new_rows[p]))>>]
    /\ pc' = [pc EXCEPT ![p] = "done"]
    /\ UNCHANGED <<qfile, upstream, runs, runNo, queries, qi, seen, all_new_rows, last,
                   seeded, readRaised>>

Next ==
    \E p \in Procs :
        \/ SeqStart(p)
        \/ ProcessQuery(p)
        \/ FinalAppend(p)

Spec == Init /\ [][Next]_vars

\* the endpoint answers each query the same way for the whole behaviour
InitFixed ==
    /\ qfile \in {f \in QueryFiles : load_queries_from_file(f) # <<>>}
    /\ LET qs   == load_queries_from_file(qfile)
           used == {qs[i] : i \in 1..Len(qs)}
       IN  \E f \in [used -> Responses] :
             upstream = [q \in QueryUniverse |-> IF q \in used THEN f[q] ELSE EmptyFeed]
    /\ InitRuns

SpecFixed == InitFixed /\ [][Next]_vars

\* runs of the two processes may overlap
OverlapNext ==
    \E p \in Procs :
        \/ Start(p)
        \/ ProcessQuery(p)
        \/ FinalAppend(p)

\* overlapping runs read one query file, its query pinned to one response
InitOverlap ==
    /\ qfile = << <<"A">>, <<>>, <<"A", " ">> >>
    /\ \E r \in Responses :
         upstream = [q \in QueryUniverse |-> IF q = <<"A">> THEN r ELSE EmptyFeed]
    /\ InitRuns

SpecOverlap == InitOverlap /\ [][OverlapNext]_vars

(* ------------------------- failing file access ------------------------ *)
\* what read_existing_set can return when the open or a read of a row raises:
\* the keys added before the exception ("except Exception: pass", return seen)
ReadFailures(csv) ==
    {{}} \cup
    (IF csv.lines = <<>> THEN {}
     ELSE {ReadLoop(Head(csv.lines), SubSeq(Tail(csv.lines), 1, k)) :
              k \in 0..(Len(csv.lines) - 2)})

\* the file a raising append_rows can leave: untouched when mkdir or open
\* raises, else opened (created when absent) and holding the first j of the
\* lines to write
AppendFailures(csv, rows) ==
    LET toWrite == (IF ~csv.exists THEN <<header>> ELSE <<>>)
                   \o [i \in 1..Len(rows) |-> WriteRow(rows[i])]
    IN  {csv} \cup
        {[exists |-> TRUE, lines |-> csv.lines \o SubSeq(toWrite, 1, j)] :
            j \in 0..(Len(toWrite) - 1)}

\* a run whose read of the existing dataset raises part-way
StartReadFails(p) ==
    /\ out_csv.exists
    /\ \E index \in ReadFailures(out_csv) : Begin(p, index, TRUE)

\* a run whose load_queries_from_file raises: collect_daily raises at line 181
StartFails(p) ==
    /\ pc[p] \in {"idle", "done", "failed"}
    /\ runs < MaxRuns
    /\ qfile = Unreadable
    /\ runs' = runs + 1
    /\ runNo' = [runNo EXCEPT ![p] = runs + 1]
    /\ pc' = [pc EXCEPT ![p] = "failed"]
    /\ queries' = [queries EXCEPT ![p] = <<>>]
    /\ qi' = [qi EXCEPT ![p] = 0]
    /\ seen' = [seen EXCEPT ![p] = {}]
    /\ seeded' = [seeded EXCEPT ![p] = {}]
    /\ readRaised' = [readRaised EXCEPT ![p] = FALSE]
    /\ all_new_rows' = [all_new_rows EXCEPT ![p] = <<>>]
    /\ last' = [last EXCEPT ![p] = Resp("none", "", <<>>)]
    /\ appendCalls' = [appendCalls EXCEPT ![p] = 0]
    /\ printed' = [printed EXCEPT ![p] = <<>>]
    /\ UNCHANGED <<qfile, upstream, out_csv>>

\* append_rows raises: nothing catches it, collect_daily raises at line 223
FinalAppendFails(p) ==
    /\ pc[p] = "append"
    /\ all_new_rows[p] # <<>>
    /\ out_csv' \in AppendFailures(out_csv, all_new_rows[p])
    /\ appendCalls' = [appendCalls EXCEPT ![p] = appendCalls[p] + 1]
    /\ printed' = [printed EXCEPT ![p] = <<>>]
    /\ pc' = [pc EXCEPT ![p] = "failed"]
    /\ UNCHANGED <<qfile, upstream, runs, runNo, queries, qi, seen, all_new_rows, last,
                   seeded, readRaised>>

\* any query file, readable or not, an endpoint free to answer anything
InitFaults ==
    /\ qfile \in QueryFiles \cup {Unreadable}
    /\ upstream = [q \in QueryUniverse |-> Unpinned]
    /\ InitRuns

SeqStartReadFails(p) ==
    /\ p = "p1"
    /\ StartReadFails(p)

SeqStartFails(p) ==
    /\ p = "p1"
    /\ StartFails(p)

\* sequential runs in an environment where file access can fail
FaultNext ==
    \E p \in Procs :
        \/ SeqStart(p)
        \/ SeqStartReadFails(p)
        \/ SeqStartFails(p)
        \/ ProcessQuery(p)
        \/ FinalAppend(p)
        \/ FinalAppendFails(p)

SpecFaults == InitFaults /\ [][FaultNext]_vars

\* a process that has a next statement executes it
Fairness == \A p \in Procs : WF_vars(ProcessQuery(p)) /\ WF_vars(FinalAppend(p))

FairSpec == Spec /\ Fairness

(* ------------------------- properties ---------------------------------- *)
\* t is empty or whitespace only
IsBlank(t) == \A i \in 1..Len(t) : t[i] \in Whitespace

\* the data rows of the dataset, without the header line
DataLines == IF out_csv.lines = <<>> THEN <<>> ELSE Tail(out_csv.lines)

\* the identity key (title, link) of a line of the dataset
LineKey(line) == <<line[3], line[4]>>

IsPrefix(s, t) == Len(s) <= Len(t) /\ SubSeq(t, 1, Len(s)) = s

\* C1: after any sequence of sequential runs for the day, no two rows of the
\* day's dataset share the same (title, link), entries with an empty link
\* included.
C1_NoDuplicateKeys ==
    \A i, j \in 1..Len(DataLines) :
        i # j => LineKey(DataLines[i]) # LineKey(DataLines[j])

\* C2: with the endpoint answering every query the same way in both runs, the
\* second run for the day returns having appended no row.
C2_SecondRunAppendsNothing ==
    \A p \in Procs :
        (runNo[p] >= 2 /\ pc[p] = "done") => all_new_rows[p] = <<>>

\* rows with a non-empty link are pairwise distinct
NoDuplicateLinkedKeys ==
    \A i, j \in 1..Len(DataLines) :
        (i # j /\ DataLines[i][4] # <<>>) => LineKey(DataLines[i]) # LineKey(DataLines[j])

\* C3: the dataset is append-only: every step leaves the lines it held as a
\* prefix of the lines it holds afterwards, and never removes the file.
C3_AppendOnly ==
    [][IsPrefix(out_csv.lines, out_csv'.lines) /\ (out_csv.exists => out_csv'.exists)]_vars

\* a second run has appended its rows after the rows of an earlier run
C3_Witness ==
    \E p \in Procs :
        /\ pc[p] = "done" /\ runNo[p] = 2 /\ appendCalls[p] = 1
        /\ Len(out_csv.lines) > 1 + Len(all_new_rows[p])

\* the line append_rows writes for a row of the batch
LineOf(r) == <<r.source, r.query, r.title, r.link, r.published, r.collected_jst>>

\* the last n lines of the dataset are the rows of batch b, in order
EndsWithBatch(csv, b) ==
    /\ Len(csv.lines) >= Len(b)
    /\ \A k \in 1..Len(b) : csv.lines[Len(csv.lines) - Len(b) + k] = LineOf(b[k])

\* C4: at FinalAppend a non-empty batch is written by exactly one append call,
\* whole; an empty batch writes nothing, so that a run that found nothing new
\* creates no file.
C4_FinalAppend ==
    [][\A p \in Procs :
         (pc[p] = "append" /\ pc'[p] # "append") =>
            IF all_new_rows[p] # <<>>
            THEN /\ appendCalls[p] = 0 /\ appendCalls'[p] = 1
                 /\ out_csv'.exists
                 /\ Len(out_csv'.lines) = Len(out_csv.lines) + Len(all_new_rows[p])
                                          + (IF out_csv.exists THEN 0 ELSE 1)
                 /\ EndsWithBatch(out_csv', all_new_rows[p])
            ELSE /\ appendCalls'[p] = 0
                 /\ out_csv' = out_csv]_vars

\* a run that found nothing new has returned and the day still has no file
C4_Witness ==
    \E p \in Procs :
        pc[p] = "done" /\ all_new_rows[p] = <<>> /\ appendCalls[p] = 0 /\ ~out_csv.exists

FailureKinds == {"exception", "malformed", "nochannel"}

\* C5: every run that entered the loop reaches Done, with all its queries
\* processed, whatever the per-query failures.
C5_ReachesDone ==
    \A p \in Procs :
        (pc[p] = "loop") ~> (pc[p] = "done" /\ qi[p] = Len(queries[p]) + 1)

\* a run whose last query failed has returned with the rows of earlier queries
C5_Witness ==
    \E p \in Procs :
        pc[p] = "done" /\ last[p].kind \in FailureKinds /\ all_new_rows[p] # <<>>

\* C6: a loop iteration whose fetch or parse fails leaves the index, the batch
\* and the dataset as they were, which is what an empty feed leaves, and the
\* run goes on with the next query.
C6_FailureIsolated ==
    [][\A p \in Procs :
         (pc[p] = "loop" /\ qi'[p] # qi[p] /\ last'[p].kind \in FailureKinds) =>
            /\ seen'[p] = seen[p]
            /\ all_new_rows'[p] = all_new_rows[p]
            /\ out_csv' = out_csv
            /\ qi'[p] = qi[p] + 1
            /\ pc'[p] = (IF qi[p] = Len(queries[p]) THEN "append" ELSE "loop")]_vars

\* a query has failed after an earlier query gave rows and before a later query
C6_Witness ==
    \E p \in Procs :
        pc[p] = "loop" /\ last[p].kind \in FailureKinds /\ all_new_rows[p] # <<>>

\* the entries of the pinned feed of q that parse_rss reads: the first
\* MAX_ITEMS_PER_QUERY <item> elements
ReadEntries(q) ==
    IF upstream[q].kind # "feed" THEN <<>>
    ELSE SubSeq(upstream[q].items, 1, Min(MAX_ITEMS_PER_QUERY, Len(upstream[q].items)))

\* the candidates of the queries a run has processed, in processing order,
\* each as <<query, title, link>>
RECURSIVE Candidates(_, _)
Candidates(qs, n) ==
    IF n = 0 THEN <<>>
    ELSE Candidates(qs, n - 1)
         \o [k \in 1..Len(ReadEntries(qs[n])) |->
               <<qs[n], Strip(OrEmpty(ReadEntries(qs[n])[k].title)),
                        Strip(OrEmpty(ReadEntries(qs[n])[k].link))>>]

RECURSIVE IsSubseq(_, _)
IsSubseq(s, t) ==
    IF s = <<>> THEN TRUE
    ELSE IF t = <<>> THEN FALSE
    ELSE IF Head(s) = Head(t) THEN IsSubseq(Tail(s), Tail(t))
    ELSE IsSubseq(s, Tail(t))

BatchTriples(p) ==
    [k \in 1..Len(all_new_rows[p]) |->
       <<all_new_rows[p][k].query, all_new_rows[p][k].title, all_new_rows[p][k].link>>]

\* C7: the rows a run holds are in processing order (earlier query first,
\* within a query earlier entry first), and they are written in that order.
C7_OrderPreserved ==
    \A p \in Procs :
        /\ IsSubseq(BatchTriples(p), Candidates(queries[p], qi[p] - 1))
        /\ (pc[p] = "done" /\ all_new_rows[p] # <<>>) => EndsWithBatch(out_csv, all_new_rows[p])

\* a run over queries A, B has written a row of A followed by a row of B
C7_Witness ==
    \E p \in Procs :
        /\ pc[p] = "done" /\ Len(all_new_rows[p]) = 2
        /\ all_new_rows[p][1].query = <<"A">> /\ all_new_rows[p][2].query = <<"B">>

\* the keys of the candidates with a title among the entries read for q
CandKeys(q) ==
    {<<Strip(OrEmpty(ReadEntries(q)[k].title)), Strip(OrEmpty(ReadEntries(q)[k].link))>> :
        k \in {j \in 1..Len(ReadEntries(q)) : ~IsBlank(OrEmpty(ReadEntries(q)[j].title))}}

\* C8: dedup is first-seen across the batch: the rows a run holds have
\* pairwise distinct keys, every candidate of a processed query is in the
\* index, and each row carries the query of the first processed query whose
\* feed has its key.
C8_FirstSeenDedup ==
    \A p \in Procs :
        LET b == all_new_rows[p]
            done == 1..(qi[p] - 1)
        IN  /\ \A i, j \in 1..Len(b) :
                 i # j => <<b[i].title, b[i].link>> # <<b[j].title, b[j].link>>
            /\ \A k \in done : CandKeys(queries[p][k]) \subseteq seen[p]
            /\ \A i \in 1..Len(b) :
                 LET key == <<b[i].title, b[i].link>>
                     from == {k \in done : key \in CandKeys(queries[p][k])}
                 IN  /\ from # {}
                     /\ b[i].query = queries[p][CHOOSE k \in from : \A m \in from : k <= m]

\* queries A then B both returned the key (a, x): one row, with query A
C8_Witness ==
    \E p \in Procs :
        /\ pc[p] = "done" /\ runNo[p] = 1 /\ queries[p] = << <<"A">>, <<"B">> >>
        /\ <<<<"a">>, <<"x">>>> \in CandKeys(<<"A">>) \cap CandKeys(<<"B">>)
        /\ \E i \in 1..Len(all_new_rows[p]) :
             /\ all_new_rows[p][i].title = <<"a">> /\ all_new_rows[p][i].link = <<"x">>
             /\ all_new_rows[p][i].query = <<"A">>

\* C9: no record with an empty or whitespace-only title is in the parser's
\* output, in a batch or in a row of the dataset.
C9_NoBlankTitle ==
    /\ \A q \in QueryUniverse :
         upstream[q].kind # "exception" =>
            LET out == parse_rss(upstream[q], q, MAX_ITEMS_PER_QUERY, now_jst_iso(1))
            IN  \A k \in 1..Len(out) : ~IsBlank(out[k].title)
    /\ \A p \in Procs : \A k \in 1..Len(all_new_rows[p]) : ~IsBlank(all_new_rows[p][k].title)
    /\ \A k \in 1..Len(DataLines) : ~IsBlank(DataLines[k][3])

\* a run has written rows from a feed whose first entry has a blank title
C9_Witness ==
    \E p \in Procs :
        /\ pc[p] = "done" /\ DataLines # <<>>
        /\ \E k \in 1..Len(queries[p]) :
             /\ ReadEntries(queries[p][k]) # <<>>
             /\ IsBlank(OrEmpty(ReadEntries(queries[p][k])[1].title))
             /\ Len(ReadEntries(queries[p][k])) = 2

NotWhitespace(c) == c \notin Whitespace

\* the query file is absent, or every line of it is blank or a comment
NoUsableLine(f) ==
    \/ f = None
    \/ \A i \in 1..Len(f) :
         LET t == SelectSeq(f[i], NotWhitespace)
         IN  t = <<>> \/ Head(t) = "#"

\* C10: with the query file absent or without a usable line, a run uses
\* DEFAULT_QUERIES and does not fail.
C10_DefaultQueries ==
    \A p \in Procs :
        (pc[p] # "idle" /\ NoUsableLine(qfile)) =>
            (queries[p] = DEFAULT_QUERIES /\ pc[p] # "failed")

\* a run has returned with a query file that holds only blank and comment lines
C10_Witness ==
    \E p \in Procs :
        pc[p] = "done" /\ qfile # None /\ NoUsableLine(qfile) /\ out_csv.exists

\* C14: a run writes the dataset at most once and only after its last query:
\* every step of the per-query loop leaves the dataset as it was, the batch
\* living in all_new_rows only, and the dataset changes only in the step that
\* leaves "append", with every query processed and no earlier write by the run.
C14_SingleWriteAfterLoop ==
    [][/\ \A p \in Procs :
            /\ pc[p] = "loop" => out_csv' = out_csv
            /\ pc'[p] = "loop" => appendCalls'[p] = 0
            /\ appendCalls'[p] <= 1
       /\ out_csv' # out_csv =>
            \E p \in Procs :
                /\ pc[p] = "append" /\ pc'[p] = "done"
                /\ qi[p] = Len(queries[p]) + 1
                /\ appendCalls[p] = 0 /\ appendCalls'[p] = 1]_vars

\* a run is at its second query holding rows of the first, the dataset not
\* yet created
C14_Witness ==
    \E p \in Procs :
        /\ pc[p] = "loop" /\ qi[p] = 2 /\ all_new_rows[p] # <<>>
        /\ ~out_csv.exists /\ appendCalls[p] = 0

\* the raw entry has a title that is not empty after trimming
HasTitle(e) == ~IsBlank(OrEmpty(e.title))

\* the entries with a title among the first cap raw entries, in document order
KeptOfCapped(items, cap) ==
    SelectSeq(SubSeq(items, 1, Min(cap, Len(items))), HasTitle)

\* C15: the cap is applied to the raw entries before the empty-title filter:
\* parse_rss returns exactly the entries with a title among the first
\* max_items raw entries, in document order, trimmed, and the count a run
\* logs for a query is the number of those entries.
C15_CapBeforeFilter ==
    /\ \A q \in QueryUniverse :
         upstream[q].kind = "feed" =>
            LET out == parse_rss(upstream[q], q, MAX_ITEMS_PER_QUERY, now_jst_iso(1))
                exp == KeptOfCapped(upstream[q].items, MAX_ITEMS_PER_QUERY)
            IN  /\ Len(out) = Len(exp)
                /\ \A k \in 1..Len(exp) :
                     /\ out[k].title = Strip(OrEmpty(exp[k].title))
                     /\ out[k].link = Strip(OrEmpty(exp[k].link))
                     /\ out[k].published = Strip(OrEmpty(exp[k].pubDate))
                     /\ out[k].query = q
    /\ \A p \in Procs :
         (Active(p) /\ qi[p] > 1) =>
            LET q == queries[p][qi[p] - 1]
            IN  printed[p][Len(printed[p])].got =
                  Len(KeptOfCapped(upstream[q].items, MAX_ITEMS_PER_QUERY))

\* a run has processed a feed whose first entry has no title and whose entry
\* after the cap has a title and a key of its own: that key was never seen
C15_Witness ==
    \E p \in Procs :
        /\ pc[p] = "done"
        /\ \E k \in 1..Len(queries[p]) :
             LET its == upstream[queries[p][k]].items
             IN  /\ Len(its) = MAX_ITEMS_PER_QUERY + 1
                 /\ ~HasTitle(its[1])
                 /\ HasTitle(its[MAX_ITEMS_PER_QUERY]) /\ HasTitle(its[MAX_ITEMS_PER_QUERY + 1])
                 /\ <<Strip(OrEmpty(its[MAX_ITEMS_PER_QUERY + 1].title)),
                      Strip(OrEmpty(its[MAX_ITEMS_PER_QUERY + 1].link))>> \notin seen[p]
                 /\ Len(all_new_rows[p]) = 1

\* the (title, link) keys of the rows of a batch
BatchKeys(b) == {<<b[k].title, b[k].link>> : k \in 1..Len(b)}

\* C19: while a run is in its loop or at its final append, seen is the seeded
\* set united with the keys of all_new_rows, the rows of all_new_rows have
\* pairwise distinct keys, none of them is in the seeded set, and no step of
\* the run takes a key out of seen.
C19_IndexIsSeededPlusBatch ==
    /\ [](\A p \in Procs :
            Active(p) =>
               /\ seen[p] = seeded[p] \cup BatchKeys(all_new_rows[p])
               /\ Cardinality(BatchKeys(all_new_rows[p])) = Len(all_new_rows[p])
               /\ BatchKeys(all_new_rows[p]) \cap seeded[p] = {})
    /\ [][\A p \in Procs : Active(p) => seen[p] \subseteq seen'[p]]_vars

\* a second run, seeded with a key of the dataset, holds a row with a new key
C19_Witness ==
    \E p \in Procs :
        /\ pc[p] = "loop" /\ runNo[p] = 2 /\ qi[p] > 1
        /\ seeded[p] # {} /\ all_new_rows[p] # <<>>
        /\ last[p].kind \notin FailureKinds

\* the step is the loop iteration of p for its query number qi[p]
ProcessedOne(p) == pc[p] = "loop" /\ qi'[p] = qi[p] + 1

\* the lines p printed in the step hold a failure classification for query q
LogsFailureOf(p, q) ==
    \E k \in 1..Len(printed'[p]) :
        /\ printed'[p][k].tag = "warn" /\ printed'[p][k].q = q
        /\ printed'[p][k].exc # ""

\* the lines p printed in the step hold the counts of query number i, q
LogsCountsOf(p, q, i, new) ==
    \E k \in 1..Len(printed'[p]) :
        /\ printed'[p][k].tag = "ok" /\ printed'[p][k].q = q /\ printed'[p][k].i = i
        /\ printed'[p][k].got >= new /\ printed'[p][k].new = new

\* C17: every loop iteration logs the outcome of its query, in query order:
\* the attempted and kept counts when the fetch and parse succeeded, and a
\* failure classification when the GET raised or the body was malformed.
C17_EveryOutcomeLogged ==
    [][\A p \in Procs :
         ProcessedOne(p) =>
            LET q == queries[p][qi[p]]
            IN  IF last'[p].kind \in {"exception", "malformed"}
                THEN LogsFailureOf(p, q)
                ELSE LogsCountsOf(p, q, qi[p],
                                  Len(all_new_rows'[p]) - Len(all_new_rows[p]))]_vars

\* a GET that raised is logged with the name of its exception
ExceptionsAreLogged ==
    [][\A p \in Procs :
         (ProcessedOne(p) /\ last'[p].kind = "exception") =>
            LogsFailureOf(p, queries[p][qi[p]])]_vars

\* the row has a non-empty title and a non-empty link
Keyed(line) == ~IsBlank(line[3]) /\ ~IsBlank(line[4])

\* the keys of the rows of the dataset that have both a title and a link
KeyedRowKeys ==
    {<<Strip(DataLines[k][3]), Strip(DataLines[k][4])>> :
        k \in {j \in 1..Len(DataLines) : Keyed(DataLines[j])}}

\* the keys of the candidates of the queries p has processed
ProcessedCandKeys(p) ==
    UNION {CandKeys(queries[p][k]) : k \in 1..(qi[p] - 1)}

LinkedDuplicate(i, j) ==
    /\ i # j /\ Keyed(DataLines[i])
    /\ LineKey(DataLines[i]) = LineKey(DataLines[j])

\* C16: with two runs for the day interleaved, the dataset can come to hold
\* two rows with the same (title, link), and only in this way: the two rows
\* were appended by different runs, and the run that appended second did so
\* from an index seeded before the first had appended the key.
C16_DuplicatesFromStaleIndex ==
    /\ [](\A i, j \in 1..Len(DataLines) :
            LinkedDuplicate(i, j) => DataLines[i][6] # DataLines[j][6])
    /\ [][\A p \in Procs :
            (pc[p] = "append" /\ pc'[p] = "done") =>
               \A k \in 1..Len(all_new_rows[p]) :
                  LET key == <<all_new_rows[p][k].title, all_new_rows[p][k].link>>
                  IN  key \in KeyedRowKeys => key \notin seeded[p]]_vars

\* both runs have seeded an index without the key, kept the same candidate
\* and appended it: the dataset holds the key twice
C16_Witness ==
    /\ \A p \in Procs : pc[p] = "done" /\ seeded[p] = {}
    /\ \E key \in KeyedRowKeys :
         \A p \in Procs : key \in BatchKeys(all_new_rows[p])
    /\ \E i, j \in 1..Len(DataLines) : LinkedDuplicate(i, j)

\* the step is a call of append_rows by p that raised: the call was made and
\* the run did not go on to print [done]
AppendRaised(p) ==
    /\ pc[p] = "append" /\ appendCalls'[p] = appendCalls[p] + 1
    /\ \A k \in 1..Len(printed'[p]) : printed'[p][k].tag # "done"

\* a raising append_rows is not recovered: the run ends failed, its batch
\* not retried and [done] not printed
AppendFailurePropagates ==
    [][\A p \in Procs :
         (pc[p] = "append" /\ appendCalls'[p] = appendCalls[p] + 1
            /\ out_csv' # append_rows(out_csv, all_new_rows[p]))
         => (pc'[p] = "failed" /\ AppendRaised(p))]_vars

\* C11: a failure of the final append is not recovered inside the run, it
\* fails the run; and a run fails in no other way: every step in which a run
\* fails is a raising call of append_rows.
C11_OnlyAppendFailsTheRun ==
    [][\A p \in Procs :
         /\ (pc[p] = "append" /\ appendCalls'[p] = appendCalls[p] + 1
               /\ out_csv' # append_rows(out_csv, all_new_rows[p]))
            => (pc'[p] = "failed" /\ AppendRaised(p))
         /\ (pc'[p] = "failed" /\ (pc[p] # "failed" \/ runNo'[p] # runNo[p]))
            => AppendRaised(p)]_vars

\* C13: when the read of the existing dataset fails, because the file is
\* missing or because an error is raised part-way through its rows, the run
\* starts its loop with the empty index, and does not fail there.
C13_ReadFailureGivesEmptyIndex ==
    [][\A p \in Procs :
         (runNo'[p] # runNo[p] /\ qfile # Unreadable
            /\ (readRaised'[p] \/ ~out_csv.exists))
         => (Active(p)' /\ seen'[p] = {} /\ seeded'[p] = {})]_vars

\* a failed read of the dataset does not fail the run, and a missing dataset
\* gives the empty index
ReadFailureContinues ==
    [][\A p \in Procs :
         (runNo'[p] # runNo[p] /\ qfile # Unreadable)
         => /\ Active(p)'
            /\ ~out_csv.exists => seeded'[p] = {}]_vars

\* C18: after any sequence of sequential runs, runs whose final append
\* failed included, a dataset file that exists starts with the header row,
\* and no line after the first is a header row.
C18_ExactlyOneHeader ==
    out_csv.exists =>
        /\ out_csv.lines # <<>>
        /\ Head(out_csv.lines) = header
        /\ \A k \in 2..Len(out_csv.lines) : out_csv.lines[k] # header

\* the header is never repeated, failed appends or not
HeaderNeverRepeated ==
    \A k \in 2..Len(out_csv.lines) : out_csv.lines[k] # header

====
